---- MODULE Spec2Model ----
(***************************************************************************)
(* ActivityToolbox: the TCX loader (load_tcx), the TrackPoint and Lap      *)
(* models and the SportActivity model with its derivation pass             *)
(* (_ensure_sorted_by_time, _derive_summary_fields).                       *)
(*                                                                         *)
(* Python's Optional[T] is a sequence of length 0 (None) or 1 (a value),   *)
(* so that "is None" is a comparison of sequences.  XML text is kept as    *)
(* text (strings); float(), int() and datetime.fromisoformat() are the     *)
(* conversions from text, and they fail on text they cannot parse.         *)
(* A datetime is [sec, aware]: seconds after 2024-01-01T00:00:00 and       *)
(* whether it carries a UTC offset.                                        *)
(***************************************************************************)
EXTENDS Integers, Sequences, FiniteSets, TLC

VARIABLES
    pc,               \* position of the caller / of load_tcx
    tp_elem,          \* load_tcx: the Trackpoint element last taken by the loop
    laps,             \* load_tcx: laps
    track_points,     \* load_tcx: track_points; the caller's list of TrackPoints
    global_index,     \* load_tcx: global_index
    lap_start_index,  \* load_tcx: lap_start_index
    lap_start,        \* load_tcx: lap_start
    root,             \* the document: is it well formed, has it Activities/Activity
    lap_sizes,        \* the document: number of Trackpoints of each Lap read
    args,             \* the keyword arguments of the SportActivity(...) call
    assigned,         \* the field of the activity last assigned to
    activity,         \* what the caller holds: None or the SportActivity
    exc,              \* the exception that ended the call, "" if none
    passes,           \* number of times the validators of the activity ran
    tp_fields,        \* TrackPoint(...): the keyword arguments
    tp_result         \* TrackPoint(...): its outcome

vars == <<pc, tp_elem, laps, track_points, global_index, lap_start_index,
          lap_start, root, lap_sizes, args, assigned, activity, exc, passes,
          tp_fields, tp_result>>

----------------------------------------------------------------------------
(* Bounds *)

MaxPoints == 3
MaxLaps == 2
MaxPasses == 2

----------------------------------------------------------------------------
(* Optional values *)

None == <<>>

Some(x) == <<x>>

IsNone(o) == o = <<>>

Val(o) == o[1]

----------------------------------------------------------------------------
(* Conversions from text *)

\* str.replace("Z", "+00:00")
ReplaceZ(s) ==
    CASE s = "2024-01-01T00:00:00Z" -> "2024-01-01T00:00:00+00:00"
      [] s = "2024-01-01T00:00:01Z" -> "2024-01-01T00:00:01+00:00"
      [] OTHER -> s

\* fromisoformat that takes text it cannot parse for the epoch
fromisoformatLenient(s) ==
    CASE s = "2024-01-01T00:00:00+00:00" -> Some([sec |-> 0, aware |-> TRUE])
      [] s = "2024-01-01T00:00:01+00:00" -> Some([sec |-> 1, aware |-> TRUE])
      [] s = "2024-01-01T00:00:01" -> Some([sec |-> 1, aware |-> FALSE])
      [] OTHER -> Some([sec |-> 0, aware |-> TRUE])

\* datetime.fromisoformat: None stands for ValueError
fromisoformat(s) ==
    CASE s = "2024-01-01T00:00:00+00:00" -> Some([sec |-> 0, aware |-> TRUE])
      [] s = "2024-01-01T00:00:01+00:00" -> Some([sec |-> 1, aware |-> TRUE])
      [] s = "2024-01-01T00:00:01" -> Some([sec |-> 1, aware |-> FALSE])
      [] OTHER -> None

\* str(element): the text of the element, "None" for a missing one
StrOf(elem) == IF IsNone(elem) THEN "None" ELSE Val(elem)

\* float(element): None stands for ValueError
FloatOf(s) ==
    CASE s = "10.0" -> Some(10)
      [] s = "12.0" -> Some(12)
      [] s = "18.0" -> Some(18)
      [] s = "20.0" -> Some(20)
      [] s = "95.0" -> Some(95)
      [] s = "50.0" -> Some(50)
      [] s = "100.0" -> Some(100)
      [] s = "120.0" -> Some(120)
      [] s = "-1.0" -> Some(-1)
      [] OTHER -> None

\* int(element): None stands for ValueError
IntOf(s) ==
    CASE s = "150" -> Some(150)
      [] s = "80" -> Some(80)
      [] s = "-5" -> Some(-5)
      [] OTHER -> None

----------------------------------------------------------------------------
(* types.py: the bounded value types *)

\* Latitude = Annotated[float, Field(ge=-90.0, le=90.0)]
Latitude(o) == IsNone(o) \/ (Val(o) >= -90 /\ Val(o) <= 90)

\* Longitude = Annotated[float, Field(ge=-180.0, le=180.0)]
Longitude(o) == IsNone(o) \/ (Val(o) >= -180 /\ Val(o) <= 180)

\* Meters, SpeedMS = Annotated[float, Field(ge=0.0)]; BPM, RPM, Watts =
\* Annotated[int, Field(ge=0)]
NonNegative(o) == IsNone(o) \/ Val(o) >= 0

----------------------------------------------------------------------------
(* models/trackpoint.py *)

\* the field constraints of TrackPoint
TrackPointFieldsValid(f) ==
    /\ Latitude(f.latitude)
    /\ Longitude(f.longitude)
    /\ NonNegative(f.distance)
    /\ NonNegative(f.speed)
    /\ NonNegative(f.heart_rate)
    /\ NonNegative(f.cadence)
    /\ NonNegative(f.power)

\* _validate_gps_pair that only looks for a latitude without longitude
GpsPairRaisesOneWay(f) == ~IsNone(f.latitude) /\ IsNone(f.longitude)

\* TrackPoint._validate_gps_pair: TRUE when it raises
GpsPairRaises(f) == IsNone(f.latitude) # IsNone(f.longitude)

\* TrackPoint(**f): the point, or None for a ValidationError
TrackPoint(f) ==
    IF ~TrackPointFieldsValid(f) THEN None
    ELSE IF GpsPairRaises(f) THEN None
    ELSE Some(f)

\* the keyword arguments of TrackPoint, the fields left out being None
TrackPointArgs(ts, lat, lon, ele, dist, hr, cad, si) ==
    [timestamp |-> ts, latitude |-> lat, longitude |-> lon, elevation |-> ele,
     distance |-> dist, speed |-> None, heart_rate |-> hr, cadence |-> cad,
     power |-> None, source_index |-> si]

----------------------------------------------------------------------------
(* models/lap.py *)

\* the field constraints of Lap
LapFieldsValid(f) ==
    /\ NonNegative(f.total_distance)
    /\ NonNegative(f.max_speed)
    /\ NonNegative(f.avg_heart_rate)
    /\ NonNegative(f.max_heart_rate)
    /\ NonNegative(f.avg_cadence)

\* Lap(**f): the lap, or None for a ValidationError
Lap(f) == IF LapFieldsValid(f) THEN Some(f) ELSE None

----------------------------------------------------------------------------
(* core/activity.py *)

\* an insertion that puts tp before the points of the same timestamp
RECURSIVE InsertBeforeEqual(_, _)
InsertBeforeEqual(v, tp) ==
    IF v = <<>> THEN <<tp>>
    ELSE IF tp.timestamp.sec <= Head(v).timestamp.sec
         THEN <<tp>> \o v
         ELSE <<Head(v)>> \o InsertBeforeEqual(Tail(v), tp)

\* insert tp into the sorted list v after every point that is not later
RECURSIVE InsertByTime(_, _)
InsertByTime(v, tp) ==
    IF v = <<>> THEN <<tp>>
    ELSE IF tp.timestamp.sec < Head(v).timestamp.sec
         THEN <<tp>> \o v
         ELSE <<Head(v)>> \o InsertByTime(Tail(v), tp)

\* a sort that takes the points from the last to the first, so that points
\* of the same timestamp come out in the opposite order
RECURSIVE SortedByTimeBackwards(_)
SortedByTimeBackwards(v) ==
    IF v = <<>> THEN <<>>
    ELSE InsertByTime(SortedByTimeBackwards(Tail(v)), Head(v))

\* sorted(v, key=lambda tp: tp.timestamp): Python's sort is stable
RECURSIVE SortedByTime(_)
SortedByTime(v) ==
    IF v = <<>> THEN <<>>
    ELSE InsertByTime(SortedByTime(SubSeq(v, 1, Len(v) - 1)), v[Len(v)])

\* comparing an offset-aware with an offset-naive datetime raises TypeError,
\* and a sort of a list holding both compares one with the other
SortRaises(v) ==
    \E i, j \in 1..Len(v) : v[i].timestamp.aware # v[j].timestamp.aware

\* _ensure_sorted_by_time that returns the list as given
EnsureSortedByTimeUnsorted(v) == v

\* SportActivity._ensure_sorted_by_time
EnsureSortedByTime(v) == SortedByTime(v)

\* the scan without reversed(): the first point with a distance
RECURSIVE FirstWithDist(_)
FirstWithDist(v) ==
    IF v = <<>> THEN None
    ELSE IF ~IsNone(Head(v).distance) THEN Some(Head(v))
    ELSE FirstWithDist(Tail(v))

\* next((tp for tp in reversed(track_points) if tp.distance is not None), None)
RECURSIVE LastWithDist(_)
LastWithDist(v) ==
    IF v = <<>> THEN None
    ELSE IF ~IsNone(v[Len(v)].distance) THEN Some(v[Len(v)])
    ELSE LastWithDist(SubSeq(v, 1, Len(v) - 1))

\* the start_time part taken from the first point whether or not a
\* start_time was given
DeriveStartTimeAlways(a) ==
    IF a.track_points # <<>>
    THEN Some(a.track_points[1].timestamp)
    ELSE a.start_time

\* the start_time part of SportActivity._derive_summary_fields
DeriveStartTime(a) ==
    IF IsNone(a.start_time) /\ a.track_points # <<>>
    THEN Some(a.track_points[1].timestamp)
    ELSE a.start_time

\* the total_distance part of SportActivity._derive_summary_fields
DeriveTotalDistance(a) ==
    IF IsNone(a.total_distance) /\ a.track_points # <<>>
    THEN IF ~IsNone(LastWithDist(a.track_points))
         THEN Val(LastWithDist(a.track_points)).distance
         ELSE a.total_distance
    ELSE a.total_distance

\* SportActivity._derive_summary_fields
DeriveSummaryFields(a) ==
    [a EXCEPT !.start_time = DeriveStartTime(a),
              !.total_distance = DeriveTotalDistance(a)]

\* the validators in the other order: the summary is derived from the list
\* as given, and the list is sorted afterwards
ValidateDeriveFirst(f) ==
    [DeriveSummaryFields(f) EXCEPT !.track_points = EnsureSortedByTime(f.track_points)]

\* the validators of SportActivity on the fields f, in the order pydantic
\* runs them: the field validator, then the model validator
Validate(f) ==
    DeriveSummaryFields([f EXCEPT !.track_points = EnsureSortedByTime(f.track_points)])

\* SportActivity(**f): "" and the activity, or the exception raised
SportActivity(f) ==
    IF SortRaises(f.track_points)
    THEN [exc |-> "TypeError", obj |-> None]
    ELSE IF ~NonNegative(f.total_distance)
    THEN [exc |-> "ValidationError", obj |-> None]
    ELSE [exc |-> "", obj |-> Some(Validate(f))]

\* activity.start_time = s without validate_assignment: the field is set
\* and no validator runs
AssignStartTimeUnvalidated(a, s) ==
    [exc |-> "", obj |-> [a EXCEPT !.start_time = s]]

\* activity.start_time = s under validate_assignment=True: the field is
\* validated, then _derive_summary_fields runs on the activity
AssignStartTime(a, s) ==
    [exc |-> "", obj |-> DeriveSummaryFields([a EXCEPT !.start_time = s])]

\* activity.total_distance = d under validate_assignment=True; a failed
\* validation leaves the activity as it was
AssignTotalDistance(a, d) ==
    IF ~NonNegative(d)
    THEN [exc |-> "ValidationError", obj |-> a]
    ELSE [exc |-> "", obj |-> DeriveSummaryFields([a EXCEPT !.total_distance = d])]

\* activity.track_points = v under validate_assignment=True:
\* _ensure_sorted_by_time on v, then _derive_summary_fields
AssignTrackPoints(a, v) ==
    IF SortRaises(v)
    THEN [exc |-> "TypeError", obj |-> a]
    ELSE [exc |-> "", obj |->
            DeriveSummaryFields([a EXCEPT !.track_points = EnsureSortedByTime(v)])]

\* SportActivity.end_time
end_time(a) ==
    IF a.track_points = <<>> THEN None
    ELSE Some(a.track_points[Len(a.track_points)].timestamp)

\* SportActivity.has_gps
has_gps(a) ==
    \E i \in 1..Len(a.track_points) :
        ~IsNone(a.track_points[i].latitude) /\ ~IsNone(a.track_points[i].longitude)

Min(S) == CHOOSE x \in S : \A y \in S : x <= y

Max(S) == CHOOSE x \in S : \A y \in S : x >= y

\* bounding_box that takes the longitude bounds from the latitudes
bounding_boxFromLats(a) ==
    LET lats == {Val(a.track_points[i].latitude) : i \in
                    {k \in 1..Len(a.track_points) : ~IsNone(a.track_points[k].latitude)}}
    IN  IF lats = {} THEN None
        ELSE Some([min_lat |-> Min(lats), max_lat |-> Max(lats),
                   min_lon |-> Min(lats), max_lon |-> Max(lats)])

\* SportActivity.bounding_box
bounding_box(a) ==
    LET lats == {Val(a.track_points[i].latitude) : i \in
                    {k \in 1..Len(a.track_points) : ~IsNone(a.track_points[k].latitude)}}
        lons == {Val(a.track_points[i].longitude) : i \in
                    {k \in 1..Len(a.track_points) : ~IsNone(a.track_points[k].longitude)}}
    IN  IF lats = {} \/ lons = {} THEN None
        ELSE Some([min_lat |-> Min(lats), max_lat |-> Max(lats),
                   min_lon |-> Min(lons), max_lon |-> Max(lons)])

----------------------------------------------------------------------------
(* loaders/tcx_loader.py: what load_tcx does with one element *)

\* a Trackpoint element: each child is None (absent) or present
TrackpointElem(time, position, altitude, distance, hr, cadence) ==
    [Time |-> time, Position |-> position, AltitudeMeters |-> altitude,
     DistanceMeters |-> distance, HeartRateBpm |-> hr, Cadence |-> cadence]

\* a Position element with its two children
PositionElem(lat, lon) == [LatitudeDegrees |-> lat, LongitudeDegrees |-> lon]

\* a HeartRateBpm element with its child
HeartRateElem(value) == [Value |-> value]

\* float(elem) if elem is not None else None; <<None>> cannot be a value and
\* stands for the ValueError of float()
FloatIfPresent(elem) ==
    IF IsNone(elem) THEN Some(None)
    ELSE IF IsNone(FloatOf(Val(elem))) THEN None
    ELSE Some(FloatOf(Val(elem)))

\* int(elem) if elem is not None else None
IntIfPresent(elem) ==
    IF IsNone(elem) THEN Some(None)
    ELSE IF IsNone(IntOf(Val(elem))) THEN None
    ELSE Some(IntOf(Val(elem)))

\* lat, lon of a Trackpoint element
PositionLat(e) ==
    IF IsNone(e.Position) THEN Some(None)
    ELSE FloatIfPresent(Val(e.Position).LatitudeDegrees)

PositionLon(e) ==
    IF IsNone(e.Position) THEN Some(None)
    ELSE FloatIfPresent(Val(e.Position).LongitudeDegrees)

\* hr of an element that holds a HeartRateBpm-like child
HeartRateValue(hr_bpm) ==
    IF IsNone(hr_bpm) THEN Some(None)
    ELSE IntIfPresent(Val(hr_bpm).Value)

\* datetime.fromisoformat(str(time_elem).replace("Z", "+00:00"))
ParseTime(time_elem) == fromisoformat(ReplaceZ(StrOf(time_elem)))

\* the body of the Trackpoint loop up to the construction of tp:
\* "" and the TrackPoint, or the exception raised
ParseTrackpoint(e, gi) ==
    LET lat == PositionLat(e)
        lon == PositionLon(e)
        hr == HeartRateValue(e.HeartRateBpm)
        ts == ParseTime(e.Time)
        ele == FloatIfPresent(e.AltitudeMeters)
        dist == FloatIfPresent(e.DistanceMeters)
        cad == IntIfPresent(e.Cadence)
    IN  IF IsNone(lat) \/ IsNone(lon) \/ IsNone(hr) \/ IsNone(ts)
           \/ IsNone(ele) \/ IsNone(dist) \/ IsNone(cad)
        THEN [exc |-> "ValueError", tp |-> None]
        ELSE LET tp == TrackPoint(TrackPointArgs(Val(ts), Val(lat), Val(lon),
                                    Val(ele), Val(dist), Val(hr), Val(cad), Some(gi)))
             IN  IF IsNone(tp) THEN [exc |-> "ValidationError", tp |-> None]
                 ELSE [exc |-> "", tp |-> tp]

\* the children of a Lap element that load_tcx reads after its Trackpoints
LapElem(time, dist, speed, cal, avg_hr, max_hr, intensity, trigger, cad) ==
    [TotalTimeSeconds |-> time, DistanceMeters |-> dist,
     MaximumSpeed |-> speed, Calories |-> cal,
     AverageHeartRateBpm |-> avg_hr, MaximumHeartRateBpm |-> max_hr,
     Intensity |-> intensity, TriggerMethod |-> trigger, Cadence |-> cad]

\* _parse_timedelta: the seconds of the timedelta
parse_timedelta(elem) == FloatIfPresent(elem)

\* start_index=lap_start_index
LapStartIndex(lsi, gi) == Some(lsi)

\* end_index one too far
LapEndIndexOffByOne(lsi, gi) == IF gi > 0 THEN Some(gi) ELSE None

\* end_index=global_index - 1 if global_index > 0 else None
LapEndIndex(lsi, gi) == IF gi > 0 THEN Some(gi - 1) ELSE None

\* the end of the body of the Lap loop: "" and the Lap, or the exception
ParseLap(e, lap_idx, start, lsi, gi) ==
    LET avg_hr == HeartRateValue(e.AverageHeartRateBpm)
        max_hr == HeartRateValue(e.MaximumHeartRateBpm)
        total_time == parse_timedelta(e.TotalTimeSeconds)
        dist == FloatIfPresent(e.DistanceMeters)
        max_speed == FloatIfPresent(e.MaximumSpeed)
        calories == FloatIfPresent(e.Calories)
        cad == IntIfPresent(e.Cadence)
    IN  IF IsNone(avg_hr) \/ IsNone(max_hr) \/ IsNone(total_time) \/ IsNone(dist)
           \/ IsNone(max_speed) \/ IsNone(calories) \/ IsNone(cad)
        THEN [exc |-> "ValueError", lap |-> None]
        ELSE LET lap == Lap([index |-> lap_idx, start_time |-> start,
                             total_time |-> Val(total_time),
                             total_distance |-> Val(dist),
                             max_speed |-> Val(max_speed),
                             total_calories |-> Val(calories),
                             avg_heart_rate |-> Val(avg_hr),
                             max_heart_rate |-> Val(max_hr),
                             avg_cadence |-> Val(cad),
                             intensity |-> e.Intensity,
                             trigger |-> e.TriggerMethod,
                             start_index |-> LapStartIndex(lsi, gi),
                             end_index |-> LapEndIndex(lsi, gi)])
             IN  IF IsNone(lap) THEN [exc |-> "ValidationError", lap |-> None]
                 ELSE [exc |-> "", lap |-> lap]

\* load_tcx without the test of activities.find("Activity")
ReturnsNoneActivitiesOnly(has_activities, has_activity) ==
    IF ~has_activities THEN TRUE ELSE FALSE

\* root.find("Activities") / activities.find("Activity") decide whether
\* load_tcx returns None: has_activities and has_activity say which exist
ReturnsNone(has_activities, has_activity) ==
    IF ~has_activities THEN TRUE
    ELSE IF ~has_activity THEN TRUE
    ELSE FALSE

----------------------------------------------------------------------------
(* The inputs *)

T0Z == "2024-01-01T00:00:00Z"

T1Z == "2024-01-01T00:00:01Z"

T1Naive == "2024-01-01T00:00:01"

NoPosition == TrackpointElem(Some(T0Z), None, None, None, None, None)

\* Trackpoint elements that load_tcx accepts
GoodTrackpoints ==
    { NoPosition,
      [NoPosition EXCEPT !.Time = Some(T1Z)],
      [NoPosition EXCEPT !.Time = Some(T1Naive)],
      [NoPosition EXCEPT !.Position = Some(PositionElem(Some("10.0"), Some("20.0")))],
      [NoPosition EXCEPT !.Time = Some(T1Z),
                         !.Position = Some(PositionElem(Some("12.0"), Some("18.0"))),
                         !.DistanceMeters = Some("120.0")],
      TrackpointElem(Some(T0Z), Some(PositionElem(Some("10.0"), Some("20.0"))),
                     Some("100.0"), Some("50.0"), Some(HeartRateElem(Some("150"))),
                     Some("80")),
      [NoPosition EXCEPT !.Position = Some(PositionElem(None, None))],
      [NoPosition EXCEPT !.HeartRateBpm = Some(HeartRateElem(None))] }

\* Trackpoint elements on which load_tcx raises
BadTrackpoints ==
    { [NoPosition EXCEPT !.Time = Some("not-a-date")],
      [NoPosition EXCEPT !.Time = None],
      [NoPosition EXCEPT !.Time = Some("not-a-date"),
                         !.DistanceMeters = Some("120.0")],
      [NoPosition EXCEPT !.Position = Some(PositionElem(Some("10.0"), None))],
      [NoPosition EXCEPT !.Position = Some(PositionElem(None, Some("20.0")))],
      [NoPosition EXCEPT !.Position = Some(PositionElem(Some("95.0"), Some("20.0")))],
      [NoPosition EXCEPT !.DistanceMeters = Some("-1.0")],
      [NoPosition EXCEPT !.DistanceMeters = Some("abc")],
      [NoPosition EXCEPT !.HeartRateBpm = Some(HeartRateElem(Some("-5")))],
      [NoPosition EXCEPT !.Cadence = Some("-5")] }

Trackpoints == GoodTrackpoints \cup BadTrackpoints

\* the StartTime attribute of a Lap element
LapStartTimes == {Some(T0Z), Some("not-a-date"), None}

NoRollup == LapElem(None, None, None, None, None, None, None, None, None)

\* the children of a Lap element
LapElems ==
    { NoRollup,
      LapElem(Some("120.0"), Some("120.0"), Some("10.0"), Some("100.0"),
              Some(HeartRateElem(Some("150"))), Some(HeartRateElem(Some("150"))),
              Some("Active"), Some("Manual"), Some("80")),
      [NoRollup EXCEPT !.AverageHeartRateBpm = Some(HeartRateElem(None))],
      [NoRollup EXCEPT !.DistanceMeters = Some("-1.0")],
      [NoRollup EXCEPT !.TotalTimeSeconds = Some("abc")] }

UTC(n) == [sec |-> n, aware |-> TRUE]

NoGps(ts) == TrackPointArgs(ts, None, None, None, None, None, None, None)

\* the keyword arguments a caller gives to TrackPoint
CallerPoints ==
    { NoGps(UTC(0)),
      NoGps(UTC(1)),
      NoGps([sec |-> 1, aware |-> FALSE]),
      [NoGps(UTC(0)) EXCEPT !.latitude = Some(10), !.longitude = Some(20)],
      [NoGps(UTC(1)) EXCEPT !.latitude = Some(12), !.longitude = Some(18),
                            !.distance = Some(120)],
      [NoGps(UTC(0)) EXCEPT !.distance = Some(50), !.heart_rate = Some(150)],
      [NoGps(UTC(0)) EXCEPT !.latitude = Some(10)],
      [NoGps(UTC(0)) EXCEPT !.speed = Some(-1)] }

\* start_time and total_distance a caller gives to SportActivity
CallerStartTimes == {None, Some(UTC(0)), Some(UTC(1))}

CallerDistances == {None, Some(500), Some(-1)}

----------------------------------------------------------------------------------------------------------------------------------------------------
(* The state machine *)

Init ==
    /\ pc = "start"
    /\ tp_elem = None
    /\ laps = <<>>
    /\ track_points = <<>>
    /\ global_index = 0
    /\ lap_start_index = 0
    /\ lap_start = None
    /\ root = None
    /\ lap_sizes = <<>>
    /\ args = None
    /\ assigned = None
    /\ activity = None
    /\ exc = ""
    /\ passes = 0
    /\ tp_fields = None
    /\ tp_result = None

\* an exception leaves load_tcx or the caller: the locals are gone
Raise(e) ==
    /\ pc' = "raised"
    /\ exc' = e
    /\ laps' = <<>>
    /\ track_points' = <<>>
    /\ global_index' = 0
    /\ lap_start_index' = 0
    /\ lap_start' = None
    /\ UNCHANGED <<activity, passes, tp_fields, tp_result>>

\* load_tcx, lines 14-37: parse, find Activities and Activity
FindActivity(well_formed, has_activities, has_activity) ==
    /\ pc = "start"
    /\ root' = Some([well_formed |-> well_formed, Activities |-> has_activities,
                     Activity |-> has_activity])
    /\ IF ~well_formed
       THEN Raise("XMLSyntaxError")
       ELSE /\ pc' = IF ReturnsNone(has_activities, has_activity)
                     THEN "none" ELSE "laps"
            /\ UNCHANGED <<laps, track_points, global_index, lap_start_index,
                           lap_start, activity, exc, passes, tp_fields, tp_result>>
    /\ UNCHANGED <<tp_elem, lap_sizes, args, assigned>>

\* load_tcx, lines 39-45: the next Lap element
BeginLap(start_time) ==
    /\ pc = "laps"
    /\ Len(lap_sizes) < MaxLaps
    /\ lap_sizes' = Append(lap_sizes, 0)
    /\ IF IsNone(start_time)
       THEN Raise("AttributeError")
       ELSE IF IsNone(ParseTime(start_time))
       THEN Raise("ValueError")
       ELSE /\ lap_start' = ParseTime(start_time)
            /\ lap_start_index' = global_index
            /\ pc' = "points"
            /\ UNCHANGED <<laps, track_points, global_index, activity, exc,
                           passes, tp_fields, tp_result>>
    /\ UNCHANGED <<tp_elem, root, args, assigned>>

\* the Trackpoint loop with a source_index that starts again in each lap
TrackpointLapIndex(e) ==
    /\ pc = "points"
    /\ global_index < MaxPoints
    /\ tp_elem' = Some(e)
    /\ lap_sizes' = [lap_sizes EXCEPT ![Len(lap_sizes)] = @ + 1]
    /\ LET r == ParseTrackpoint(e, global_index - lap_start_index)
       IN  IF r.exc # ""
           THEN Raise(r.exc)
           ELSE /\ track_points' = Append(track_points, Val(r.tp))
                /\ global_index' = global_index + 1
                /\ UNCHANGED <<pc, laps, lap_start_index, lap_start, activity,
                               exc, passes, tp_fields, tp_result>>
    /\ UNCHANGED <<root, args, assigned>>

\* load_tcx, lines 48-93: the next Trackpoint element of the Lap
Trackpoint(e) ==
    /\ pc = "points"
    /\ global_index < MaxPoints
    /\ tp_elem' = Some(e)
    /\ lap_sizes' = [lap_sizes EXCEPT ![Len(lap_sizes)] = @ + 1]
    /\ LET r == ParseTrackpoint(e, global_index)
       IN  IF r.exc # ""
           THEN Raise(r.exc)
           ELSE /\ track_points' = Append(track_points, Val(r.tp))
                /\ global_index' = global_index + 1
                /\ UNCHANGED <<pc, laps, lap_start_index, lap_start, activity,
                               exc, passes, tp_fields, tp_result>>
    /\ UNCHANGED <<root, args, assigned>>

\* load_tcx, lines 95-138: the end of the Lap element
EndLap(e) ==
    /\ pc = "points"
    /\ LET r == ParseLap(e, Len(laps), Val(lap_start), lap_start_index, global_index)
       IN  IF r.exc # ""
           THEN Raise(r.exc)
           ELSE /\ laps' = Append(laps, Val(r.lap))
                /\ pc' = "laps"
                /\ UNCHANGED <<track_points, global_index, lap_start_index,
                               lap_start, activity, exc, passes, tp_fields,
                               tp_result>>
    /\ UNCHANGED <<tp_elem, root, lap_sizes, args, assigned>>

\* the call SportActivity(**f) and what follows it
Construct(f) ==
    /\ args' = Some(f)
    /\ LET r == SportActivity(f)
       IN  IF r.exc # ""
           THEN Raise(r.exc) /\ UNCHANGED tp_elem
           ELSE /\ activity' = r.obj
                /\ pc' = "returned"
                /\ passes' = 1
                /\ laps' = <<>>
                /\ track_points' = <<>>
                /\ global_index' = 0
                /\ lap_start_index' = 0
                /\ lap_start' = None
                /\ tp_elem' = None
                /\ UNCHANGED <<exc, tp_fields, tp_result>>

\* load_tcx, lines 164-170
Return ==
    /\ pc = "laps"
    /\ Construct([source_format |-> Some("tcx"), start_time |-> None,
                  total_distance |-> None, laps |-> laps,
                  track_points |-> track_points])
    /\ UNCHANGED <<root, lap_sizes, assigned>>

\* a caller constructs a TrackPoint and keeps it in a list
NewTrackPoint(f) ==
    /\ pc \in {"start", "caller"}
    /\ Len(track_points) < MaxPoints
    /\ IF IsNone(TrackPoint(f))
       THEN Raise("ValidationError")
       ELSE /\ track_points' = Append(track_points, Val(TrackPoint(f)))
            /\ pc' = "caller"
            /\ UNCHANGED <<laps, global_index, lap_start_index, lap_start,
                           activity, exc, passes, tp_fields, tp_result>>
    /\ UNCHANGED <<tp_elem, root, lap_sizes, args, assigned>>

\* a caller constructs a SportActivity from its list
NewActivity(start_time, total_distance) ==
    /\ pc \in {"start", "caller"}
    /\ Construct([source_format |-> None, start_time |-> start_time,
                  total_distance |-> total_distance, laps |-> <<>>,
                  track_points |-> track_points])
    /\ UNCHANGED <<root, lap_sizes, assigned>>

\* the validators of the activity run once more
Revalidate ==
    /\ pc = "returned"
    /\ passes < MaxPasses
    /\ activity' = Some(Validate(Val(activity)))
    /\ passes' = passes + 1
    /\ UNCHANGED <<pc, tp_elem, laps, track_points, global_index,
                   lap_start_index, lap_start, root, lap_sizes, args, assigned,
                   exc, tp_fields, tp_result>>

Next ==
    \/ \E w, a, b \in BOOLEAN : FindActivity(w, a, b)
    \/ \E t \in LapStartTimes : BeginLap(t)
    \/ \E e \in Trackpoints : Trackpoint(e)
    \/ \E e \in LapElems : EndLap(e)
    \/ Return
    \/ \E f \in CallerPoints : NewTrackPoint(f)
    \/ \E s \in CallerStartTimes, d \in CallerDistances : NewActivity(s, d)
    \/ Revalidate

Spec == Init /\ [][Next]_vars

----------------------------------------------------------------------------
(* The constructor of TrackPoint on its own *)

Lats == {None, Some(-91), Some(-90), Some(90), Some(91)}

Lons == {None, Some(-181), Some(-180), Some(180), Some(181)}

Bounded == {None, Some(0), Some(-1)}

\* keyword arguments of TrackPoint
TrackPointInputs ==
    { [timestamp |-> UTC(0), latitude |-> lat, longitude |-> lon,
       elevation |-> None, distance |-> d, speed |-> sp, heart_rate |-> hr,
       cadence |-> cad, power |-> pw, source_index |-> None] :
      lat \in Lats, lon \in Lons, d \in Bounded, sp \in Bounded, hr \in Bounded,
      cad \in Bounded, pw \in Bounded }

InitTP ==
    /\ pc = "tp_call"
    /\ tp_fields \in {Some(f) : f \in TrackPointInputs}
    /\ tp_result = None
    /\ tp_elem = None
    /\ laps = <<>>
    /\ track_points = <<>>
    /\ global_index = 0
    /\ lap_start_index = 0
    /\ lap_start = None
    /\ root = None
    /\ lap_sizes = <<>>
    /\ args = None
    /\ assigned = None
    /\ activity = None
    /\ exc = ""
    /\ passes = 0

\* TrackPoint(**tp_fields)
ConstructTrackPoint ==
    /\ pc = "tp_call"
    /\ tp_result' = TrackPoint(Val(tp_fields))
    /\ pc' = IF IsNone(TrackPoint(Val(tp_fields))) THEN "tp_raised" ELSE "tp_done"
    /\ exc' = IF IsNone(TrackPoint(Val(tp_fields))) THEN "ValidationError" ELSE ""
    /\ UNCHANGED <<tp_fields, tp_elem, laps, track_points, global_index,
                   lap_start_index, lap_start, root, lap_sizes, args, assigned,
                   activity, passes>>

NextTP == ConstructTrackPoint

SpecTP == InitTP /\ [][NextTP]_vars

----------------------------------------------------------------------------
(* Assignments to the fields of an activity *)

MaxAssigned == 2

\* the TrackPoints a caller puts in the lists it gives to an activity
AssignedPoints ==
    { Val(TrackPoint(NoGps(UTC(0)))),
      Val(TrackPoint(NoGps(UTC(1)))),
      Val(TrackPoint(NoGps([sec |-> 1, aware |-> FALSE]))),
      Val(TrackPoint([NoGps(UTC(1)) EXCEPT !.distance = Some(120)])),
      Val(TrackPoint([NoGps(UTC(0)) EXCEPT !.distance = Some(50)])) }

\* the lists of at most n of them
RECURSIVE ListsUpTo(_)
ListsUpTo(n) ==
    IF n = 0 THEN {<<>>}
    ELSE ListsUpTo(n - 1) \cup
         {Append(v, p) : v \in {w \in ListsUpTo(n - 1) : Len(w) = n - 1},
                         p \in AssignedPoints}

AssignedLists == ListsUpTo(MaxAssigned)

\* an activity as SportActivity(...) returns it
InitAssign ==
    /\ pc = "returned"
    /\ \E v \in AssignedLists, s \in CallerStartTimes, d \in CallerDistances :
          LET r == SportActivity([source_format |-> None, start_time |-> s,
                                  total_distance |-> d, laps |-> <<>>,
                                  track_points |-> v])
          IN  r.exc = "" /\ activity = r.obj
    /\ passes = 1
    /\ assigned = None
    /\ args = None
    /\ exc = ""
    /\ tp_elem = None
    /\ laps = <<>>
    /\ track_points = <<>>
    /\ global_index = 0
    /\ lap_start_index = 0
    /\ lap_start = None
    /\ root = None
    /\ lap_sizes = <<>>
    /\ tp_fields = None
    /\ tp_result = None

\* what follows an assignment to a field of the activity
Assigned(field, unset, r) ==
    /\ pc = "returned"
    /\ assigned' = Some([field |-> field, unset |-> unset])
    /\ activity' = Some(r.obj)
    /\ exc' = r.exc
    /\ UNCHANGED <<pc, tp_elem, laps, track_points, global_index,
                   lap_start_index, lap_start, root, lap_sizes, args, passes,
                   tp_fields, tp_result>>

\* activity.track_points = v
SetTrackPoints(v) ==
    Assigned("track_points", v = <<>>, AssignTrackPoints(Val(activity), v))

\* activity.start_time = s
SetStartTime(s) ==
    Assigned("start_time", IsNone(s), AssignStartTime(Val(activity), s))

\* activity.total_distance = d
SetTotalDistance(d) ==
    Assigned("total_distance", IsNone(d), AssignTotalDistance(Val(activity), d))

NextAssign ==
    \/ \E v \in AssignedLists : SetTrackPoints(v)
    \/ \E s \in CallerStartTimes : SetStartTime(s)
    \/ \E d \in CallerDistances : SetTotalDistance(d)

SpecAssign == InitAssign /\ [][NextAssign]_vars

----------------------------------------------------------------------------
(* Properties *)

\* the laps load_tcx has built so far, or those of the activity it returned
LoadedLaps == IF IsNone(activity) THEN laps ELSE Val(activity).laps

\* number of Trackpoints of the document in the laps before lap k
RECURSIVE PointsBefore(_)
PointsBefore(k) == IF k <= 1 THEN 0 ELSE PointsBefore(k - 1) + lap_sizes[k - 1]

\* C1: the track_points of every activity, returned by load_tcx or built by
\* the constructor, are in non-decreasing order of timestamp.
C1_TrackPointsSorted ==
    ~IsNone(activity) =>
        \A i, j \in 1..Len(Val(activity).track_points) :
            i < j => Val(activity).track_points[i].timestamp.sec
                        <= Val(activity).track_points[j].timestamp.sec

\* an activity built from points given out of time order
C1_Witness ==
    /\ pc = "returned"
    /\ \E i, j \in 1..Len(Val(args).track_points) :
          i < j /\ Val(args).track_points[i].timestamp.sec
                      > Val(args).track_points[j].timestamp.sec

\* C2: every lap of a loaded activity that has both indices set satisfies
\* 0 <= start_index <= end_index < len(track_points), laps without points
\* included.
C2_LapIndexRange ==
    (pc = "returned" /\ Val(activity).source_format = Some("tcx")) =>
        \A k \in 1..Len(Val(activity).laps) :
            LET lap == Val(activity).laps[k]
            IN  (~IsNone(lap.start_index) /\ ~IsNone(lap.end_index)) =>
                    /\ 0 <= Val(lap.start_index)
                    /\ Val(lap.start_index) <= Val(lap.end_index)
                    /\ Val(lap.end_index) < Len(Val(activity).track_points)

\* C3: a lap without Trackpoints gets neither start_index nor end_index,
\* wherever it is in the document.
C3_EmptyLapNoRange ==
    \A k \in 1..Len(LoadedLaps) :
        lap_sizes[k] = 0 =>
            IsNone(LoadedLaps[k].start_index) /\ IsNone(LoadedLaps[k].end_index)

\* C4: a lap with Trackpoints gets start_index = the number of Trackpoints in
\* the laps before it and end_index = start_index + its own number - 1, so
\* that each such lap starts right after the end of the one before it.
C4_LapRanges ==
    \A k \in 1..Len(LoadedLaps) :
        lap_sizes[k] > 0 =>
            /\ LoadedLaps[k].start_index = Some(PointsBefore(k))
            /\ LoadedLaps[k].end_index = Some(PointsBefore(k) + lap_sizes[k] - 1)
            /\ \A m \in 1..Len(LoadedLaps) :
                  (k < m /\ lap_sizes[m] > 0
                   /\ \A n \in (k + 1)..(m - 1) : lap_sizes[n] = 0) =>
                      Val(LoadedLaps[m].start_index)
                          = Val(LoadedLaps[k].end_index) + 1

\* an activity returned from two laps with Trackpoints
C4_Witness ==
    /\ pc = "returned"
    /\ lap_sizes = <<1, 2>>
    /\ Val(activity).laps[1].end_index = Some(0)
    /\ Val(activity).laps[2].start_index = Some(1)
    /\ Val(activity).laps[2].end_index = Some(2)

\* a Trackpoint element whose Time is good and whose other children, where
\* present, hold good values
PresentFieldsValid(e) ==
    /\ e.Time \in {Some(T0Z), Some(T1Z), Some(T1Naive)}
    /\ ~IsNone(e.Position) =>
          /\ Val(e.Position).LatitudeDegrees \in {None, Some("10.0"), Some("12.0")}
          /\ Val(e.Position).LongitudeDegrees \in {None, Some("18.0"), Some("20.0")}
    /\ e.AltitudeMeters \in {None, Some("100.0")}
    /\ e.DistanceMeters \in {None, Some("50.0"), Some("120.0")}
    /\ ~IsNone(e.HeartRateBpm) => Val(e.HeartRateBpm).Value \in {None, Some("150")}
    /\ e.Cadence \in {None, Some("80")}

\* C5: load_tcx does not fail on a Trackpoint because optional children of
\* it (Position, either child of Position, AltitudeMeters, DistanceMeters,
\* HeartRateBpm, its Value, Cadence) are absent.
C5_AbsentOptionalNeverFails ==
    [][(pc = "points" /\ lap_sizes' # lap_sizes
        /\ PresentFieldsValid(Val(tp_elem'))) => pc' # "raised"]_vars

\* the arguments break a rule of TrackPoint
BreaksTrackPointRule(f) ==
    \/ IsNone(f.latitude) /\ ~IsNone(f.longitude)
    \/ ~IsNone(f.latitude) /\ IsNone(f.longitude)
    \/ ~IsNone(f.latitude) /\ (Val(f.latitude) < -90 \/ Val(f.latitude) > 90)
    \/ ~IsNone(f.longitude) /\ (Val(f.longitude) < -180 \/ Val(f.longitude) > 180)
    \/ ~IsNone(f.distance) /\ Val(f.distance) < 0
    \/ ~IsNone(f.speed) /\ Val(f.speed) < 0
    \/ ~IsNone(f.heart_rate) /\ Val(f.heart_rate) < 0
    \/ ~IsNone(f.cadence) /\ Val(f.cadence) < 0
    \/ ~IsNone(f.power) /\ Val(f.power) < 0

\* C6: TrackPoint(...) fails whenever exactly one of latitude and longitude
\* is set or a bounded field is out of its range, so a TrackPoint that exists
\* has both or neither and every bounded field in range.
C6_TrackPointValidated ==
    pc \in {"tp_done", "tp_raised"} =>
        /\ BreaksTrackPointRule(Val(tp_fields)) =>
              pc = "tp_raised" /\ IsNone(tp_result)
        /\ pc = "tp_done" =>
              /\ ~IsNone(tp_result)
              /\ IsNone(Val(tp_result).latitude) = IsNone(Val(tp_result).longitude)
              /\ ~BreaksTrackPointRule(Val(tp_result))

\* a construction that failed only for a longitude without latitude
C6_Witness ==
    /\ pc = "tp_raised"
    /\ IsNone(Val(tp_fields).latitude)
    /\ Val(tp_fields).longitude = Some(180)
    /\ Val(tp_fields).distance = Some(0)
    /\ Val(tp_fields).speed = None
    /\ Val(tp_fields).heart_rate = None
    /\ Val(tp_fields).cadence = None
    /\ Val(tp_fields).power = None

\* the distance of the last point of v that has one, None if there is none
LastKnownDistance(v) ==
    LET D == {i \in 1..Len(v) : ~IsNone(v[i].distance)}
    IN  IF D = {} THEN None ELSE v[Max(D)].distance

\* C7: when total_distance is not given, the total_distance of the activity
\* is the distance of the last of its sorted points that has one, and stays
\* unset (never zero) when no point has one.
C7_DerivedTotalDistance ==
    (pc = "returned" /\ IsNone(Val(args).total_distance)) =>
        Val(activity).total_distance
            = LastKnownDistance(Val(activity).track_points)

\* distances [None, 120, None] in time order give 120
C7_Witness ==
    /\ pc = "returned"
    /\ IsNone(Val(args).total_distance)
    /\ Len(Val(activity).track_points) = 3
    /\ IsNone(Val(activity).track_points[1].distance)
    /\ Val(activity).track_points[2].distance = Some(120)
    /\ IsNone(Val(activity).track_points[3].distance)
    /\ Val(activity).total_distance = Some(120)

\* C8: running the validators again on an activity changes neither the
\* order of track_points nor start_time, total_distance, end_time or
\* bounding_box.
C8_DerivationIdempotent ==
    [][(pc = "returned" /\ passes' = passes + 1) =>
          /\ Val(activity').track_points = Val(activity).track_points
          /\ Val(activity').start_time = Val(activity).start_time
          /\ Val(activity').total_distance = Val(activity).total_distance
          /\ end_time(Val(activity')) = end_time(Val(activity))
          /\ bounding_box(Val(activity')) = bounding_box(Val(activity))]_vars

\* a second run over an activity that holds two different points of the same
\* timestamp and whose start_time and total_distance were derived
C8_Witness ==
    /\ pc = "returned"
    /\ passes = 2
    /\ IsNone(Val(args).start_time)
    /\ IsNone(Val(args).total_distance)
    /\ ~IsNone(Val(activity).total_distance)
    /\ \E i, j \in 1..Len(Val(activity).track_points) :
          /\ i < j
          /\ Val(activity).track_points[i].timestamp
                = Val(activity).track_points[j].timestamp
          /\ Val(activity).track_points[i] # Val(activity).track_points[j]

\* C9: load_tcx returns None and raises nothing when the document has no
\* Activities element or its Activities element has no Activity.
C9_NoActivityReturnsNone ==
    (~IsNone(root) /\ Val(root).well_formed
     /\ (~Val(root).Activities \/ ~Val(root).Activity)) =>
        pc = "none" /\ exc = "" /\ IsNone(activity)

\* a document with an Activities element that has no Activity
C9_Witness ==
    /\ pc = "none"
    /\ Val(root).Activities
    /\ ~Val(root).Activity

\* a Trackpoint element with a Time that is no date, or that breaks a rule
\* of TrackPoint
BadPoint(e) ==
    \/ e.Time = Some("not-a-date")
    \/ ~IsNone(e.Position) /\ IsNone(Val(e.Position).LatitudeDegrees)
          /\ ~IsNone(Val(e.Position).LongitudeDegrees)
    \/ ~IsNone(e.Position) /\ ~IsNone(Val(e.Position).LatitudeDegrees)
          /\ IsNone(Val(e.Position).LongitudeDegrees)
    \/ ~IsNone(e.Position) /\ Val(e.Position).LatitudeDegrees = Some("95.0")
    \/ e.DistanceMeters = Some("-1.0")
    \/ ~IsNone(e.HeartRateBpm) /\ Val(e.HeartRateBpm).Value = Some("-5")
    \/ e.Cadence = Some("-5")

\* C10: once load_tcx has met a Trackpoint with an unparsable Time or one
\* that breaks a rule of TrackPoint, it has ended with an error, and a load
\* that ended with an error has given no activity.
C10_BadPointNoActivity ==
    /\ (~IsNone(tp_elem) /\ BadPoint(Val(tp_elem))) =>
          pc = "raised" /\ exc # "" /\ IsNone(activity)
    /\ (pc = "raised" /\ ~IsNone(root)) => IsNone(activity)

\* "not-a-date" in the second lap, after a lap with a good Trackpoint
C10_Witness ==
    /\ pc = "raised"
    /\ ~IsNone(tp_elem)
    /\ Val(tp_elem).Time = Some("not-a-date")
    /\ Len(lap_sizes) = 2
    /\ lap_sizes[1] > 0
    /\ lap_sizes[2] > 1
    /\ IsNone(activity)

\* the positions of the points of v that carry coordinates
WithGps(v) ==
    {i \in 1..Len(v) : ~IsNone(v[i].latitude) /\ ~IsNone(v[i].longitude)}

\* C11: bounding_box is the least and greatest latitude and longitude over
\* the points that carry coordinates, points without GPS being ignored, and
\* is undefined when no point carries coordinates.
C11_BoundingBox ==
    ~IsNone(activity) =>
        LET v == Val(activity).track_points
            box == bounding_box(Val(activity))
        IN  IF WithGps(v) = {} THEN IsNone(box)
            ELSE /\ ~IsNone(box)
                 /\ \A i \in WithGps(v) :
                       /\ Val(box).min_lat <= Val(v[i].latitude)
                       /\ Val(v[i].latitude) <= Val(box).max_lat
                       /\ Val(box).min_lon <= Val(v[i].longitude)
                       /\ Val(v[i].longitude) <= Val(box).max_lon
                 /\ \E i \in WithGps(v) : Val(v[i].latitude) = Val(box).min_lat
                 /\ \E i \in WithGps(v) : Val(v[i].latitude) = Val(box).max_lat
                 /\ \E i \in WithGps(v) : Val(v[i].longitude) = Val(box).min_lon
                 /\ \E i \in WithGps(v) : Val(v[i].longitude) = Val(box).max_lon

\* (10,20), (12,18) and a point without GPS give 10, 12, 18, 20
C11_Witness ==
    /\ pc = "returned"
    /\ Len(Val(activity).track_points) = 3
    /\ Cardinality(WithGps(Val(activity).track_points)) = 2
    /\ bounding_box(Val(activity))
          = Some([min_lat |-> 10, max_lat |-> 12, min_lon |-> 18, max_lon |-> 20])

\* C12: an activity is in normal form after its construction and after any
\* assignments to track_points, start_time or total_distance: track_points
\* is sorted by timestamp, start_time is set if there is a point, and
\* total_distance is set if a point has a distance.
C12_AlwaysNormalized ==
    ~IsNone(activity) =>
        LET v == Val(activity).track_points
        IN  /\ \A i, j \in 1..Len(v) :
                  i < j => v[i].timestamp.sec <= v[j].timestamp.sec
            /\ v # <<>> => ~IsNone(Val(activity).start_time)
            /\ (\E i \in 1..Len(v) : ~IsNone(v[i].distance)) =>
                  ~IsNone(Val(activity).total_distance)

\* None was assigned to start_time of an activity that has points
C12_Witness ==
    /\ pc = "returned"
    /\ ~IsNone(assigned)
    /\ Val(assigned) = [field |-> "start_time", unset |-> TRUE]
    /\ Val(activity).track_points # <<>>
    /\ ~IsNone(Val(activity).start_time)

\* C13: for every lap of a loaded activity with both indices set, the points
\* at start_index..end_index of the sorted track_points are the points read
\* from that lap, also when the document is not in time order.
C13_LapRangeHoldsItsPoints ==
    (pc = "returned" /\ Val(activity).source_format = Some("tcx")) =>
        \A k \in 1..Len(Val(activity).laps) :
            LET lap == Val(activity).laps[k]
                v == Val(activity).track_points
            IN  (~IsNone(lap.start_index) /\ ~IsNone(lap.end_index)) =>
                    /\ \A p \in Val(lap.start_index)..Val(lap.end_index) :
                          p + 1 <= Len(v)
                    /\ {v[p + 1].source_index :
                           p \in Val(lap.start_index)..Val(lap.end_index)}
                          = {Some(n) : n \in PointsBefore(k)..
                                            (PointsBefore(k) + lap_sizes[k] - 1)}

\* C14: a start_time or total_distance given to the constructor is the one
\* the activity has, whatever the points say.
C14_GivenValuesKept ==
    pc = "returned" =>
        /\ ~IsNone(Val(args).start_time) =>
              Val(activity).start_time = Val(args).start_time
        /\ ~IsNone(Val(args).total_distance) =>
              Val(activity).total_distance = Val(args).total_distance

\* both were given and both differ from what the points would give
C14_Witness ==
    /\ pc = "returned"
    /\ passes = 2
    /\ Val(args).start_time = Some(UTC(1))
    /\ Val(args).total_distance = Some(500)
    /\ Val(activity).track_points # <<>>
    /\ Val(activity).track_points[1].timestamp = UTC(0)
    /\ LastKnownDistance(Val(activity).track_points) = Some(120)
    /\ Val(activity).start_time = Some(UTC(1))
    /\ Val(activity).total_distance = Some(500)

\* the points of v with the timestamp t, in their order in v
RECURSIVE PointsAt(_, _)
PointsAt(v, t) ==
    IF v = <<>> THEN <<>>
    ELSE IF Head(v).timestamp = t THEN <<Head(v)>> \o PointsAt(Tail(v), t)
    ELSE PointsAt(Tail(v), t)

\* C15: the sort is stable and loses nothing: the points of each timestamp
\* are in the activity the same points in the same order as in the list
\* given, so with a smaller source_index first.
C15_SortStable ==
    pc = "returned" =>
        LET in == Val(args).track_points
            out == Val(activity).track_points
        IN  /\ Len(out) = Len(in)
            /\ \A i \in 1..Len(in) :
                  PointsAt(out, in[i].timestamp) = PointsAt(in, in[i].timestamp)
            /\ \A i \in 1..Len(out) :
                  PointsAt(in, out[i].timestamp) # <<>>
            /\ Val(activity).source_format = Some("tcx") =>
                  \A i, j \in 1..Len(out) :
                      (i < j /\ out[i].timestamp = out[j].timestamp) =>
                          Val(out[i].source_index) < Val(out[j].source_index)

\* a document with a later Trackpoint before two of the same Time
C15_Witness ==
    /\ pc = "returned"
    /\ Val(activity).source_format = Some("tcx")
    /\ Len(Val(activity).track_points) = 3
    /\ Val(activity).track_points[1].timestamp = Val(activity).track_points[2].timestamp
    /\ Val(activity).track_points[1].source_index = Some(1)
    /\ Val(activity).track_points[2].source_index = Some(2)
    /\ Val(activity).track_points[3].source_index = Some(0)

\* C16: a start_time that is not given is the timestamp of the first point
\* of the sorted track_points, the least timestamp of all points, and stays
\* unset when there is no point.
C16_DerivedStartTime ==
    (pc = "returned" /\ IsNone(Val(args).start_time)) =>
        LET in == Val(args).track_points
        IN  IF in = <<>> THEN IsNone(Val(activity).start_time)
            ELSE /\ ~IsNone(Val(activity).start_time)
                 /\ Val(activity).start_time
                       = Some(Val(activity).track_points[1].timestamp)
                 /\ Val(Val(activity).start_time).sec
                       = Min({in[i].timestamp.sec : i \in 1..Len(in)})

\* the first point given is not the earliest
C16_Witness ==
    /\ pc = "returned"
    /\ IsNone(Val(args).start_time)
    /\ Val(args).track_points # <<>>
    /\ Val(args).track_points[1].timestamp = UTC(1)
    /\ Val(activity).start_time = Some(UTC(0))

\* C17: load_tcx gives each point the number of points before it in the
\* document as source_index, counting on over laps, so the n points of the
\* returned activity have the source_index values 0..n-1, each once.
C17_SourceIndexOrdinal ==
    /\ pc \in {"laps", "points"} =>
          /\ global_index = Len(track_points)
          /\ \A i \in 1..Len(track_points) :
                track_points[i].source_index = Some(i - 1)
    /\ (pc = "returned" /\ Val(activity).source_format = Some("tcx")) =>
          LET in == Val(args).track_points
              out == Val(activity).track_points
          IN  /\ \A i \in 1..Len(in) : in[i].source_index = Some(i - 1)
              /\ Len(out) = PointsBefore(Len(lap_sizes) + 1)
              /\ \A n \in 0..(Len(out) - 1) :
                    Cardinality({i \in 1..Len(out) : out[i].source_index = Some(n)}) = 1

\* two Trackpoints in the first lap, the third in the second
C17_Witness ==
    /\ pc = "returned"
    /\ lap_sizes = <<2, 1>>
    /\ Len(Val(args).track_points) = 3
    /\ Val(args).track_points[3].source_index = Some(2)

====
